---- MODULE Spec2Model ----
(***************************************************************************)
(* A model of the embedding server of src/embedding/main.py: the           *)
(* /update_file_embeddings handler (delete the batch's file paths, then    *)
(* insert the batch in chunks of BATCH_SIZE) and the /search handler       *)
(* (overfetch, score, threshold, path filters, cap) over one in-memory     *)
(* ChromaDB collection.                                                    *)
(*                                                                         *)
(* Both handlers are `async def` and await nothing, and the collection's   *)
(* calls are synchronous, so on uvicorn's single event loop a handler runs *)
(* from its first line to its return before the next request is served.    *)
(* The update handler is nevertheless modelled step by step (one store     *)
(* call per step), because a store call may raise and leave the index as   *)
(* it was after the step before it.                                        *)
(*                                                                         *)
(* Specifications: Spec (the update handler on every batch), SpecSearch    *)
(* (both handlers on a small index), SpecChunk (other chunk sizes),        *)
(* SpecFilter (the path filters on their own) and SpecRequests (clients    *)
(* whose requests are in flight together).                                 *)
(***************************************************************************)
EXTENDS Integers, Sequences, FiniteSets, TLC

VARIABLES
    index,             \* the collection: a set of entries [id, document, metadata]
    batchSize,         \* the chunk size of the insert loop (BATCH_SIZE in the code)
    pc,                \* where the update handler stands: idle, delete (lines 72-89), add (91-102)
    input,             \* input.documents of the update in flight
    metadata_filters,  \* the where-filters of lines 72-75
    di,                \* the delete loop's position (1-based) in metadata_filters
    ids,               \* the ids of line 82
    documents,         \* the truncated texts of line 84
    metadatas,         \* the metadatas of line 85
    ci,                \* the insert loop's i (0-based chunk number)
    callNo,            \* how many update calls have started (the source of fresh ids)
    response,          \* the response of the request in hand: pending, then what the handler returned
    search,            \* the latest search call: request, store answer, candidates evaluated
    ops,               \* the store calls the latest update call has issued, in order
    cur,               \* the latest update call: its batch, the content before it, its outcome
    prev,              \* the same for the update call before it
    requests,          \* the requests clients have sent, in order of arrival
    pathFilter         \* a call of a path filter on its own: arguments and what it returned

vars == <<index, batchSize, pc, input, metadata_filters, di, ids, documents,
          metadatas, ci, callNo, response, search, ops, cur, prev, requests,
          pathFilter>>

----------------------------------------------------------------------------
(* Bounds of the model. *)

\* update calls in one behaviour
MaxCalls == 3
\* documents in a batch drawn freely from GoodDocs
MaxBatchLen == 1

(* Program constants. *)

\* main.py:13
BATCH_SIZE == 25
\* main.py:84, doc["document"][:1000]
MAX_DOC_CHARS == 1000

----------------------------------------------------------------------------
(* Values. *)

Min(a, b) == IF a <= b THEN a ELSE b

\* A string is a sequence of one-character strings.
PathA == <<"a", ".", "p", "y">>
PathB == <<"b", ".", "m", "d">>
PathC == <<"c", "/", "a", ".", "P", "Y">>

\* A document text is known by its stem (the unbounded character stream it is
\* a prefix of) and its length: [stem, len] is the first len characters of stem.
Text(stem, len) == [stem |-> stem, len |-> len]
ShortText == Text("s", 12)
OtherText == Text("t", 12)
LongText  == Text("s", MAX_DOC_CHARS + 1)

\* A request document is a dict; a key the dict lacks is a field the record lacks.
Doc(p, line, t) == [document |-> t, metadata |-> [filePath |-> p, start_line |-> line]]
DocNoPath == [document |-> ShortText, metadata |-> [start_line |-> 1]]
DocNoText == [metadata |-> [filePath |-> PathA, start_line |-> 1]]

GoodDocs == {Doc(PathA, 1, ShortText), Doc(PathA, 1, LongText), Doc(PathB, 1, OtherText)}

SeqsUpTo(S, n) == UNION {[1..k -> S] : k \in 0..n}

\* A batch longer than one chunk of BATCH_SIZE: two paths alternate.
BigBatch == [i \in 1..(BATCH_SIZE + 1) |->
                Doc(IF i % 2 = 1 THEN PathA ELSE PathC, i, ShortText)]

MalformedBatches == {<<DocNoPath>>,
                     <<Doc(PathA, 1, ShortText), DocNoPath>>,
                     <<Doc(PathB, 1, OtherText), DocNoText>>}

\* Batches of two documents: two paths, one path twice, the same document twice.
PairBatches == {<<Doc(PathA, 1, ShortText), Doc(PathB, 1, OtherText)>>,
                <<Doc(PathA, 1, LongText), Doc(PathA, 1, ShortText)>>,
                <<Doc(PathB, 1, OtherText), Doc(PathB, 1, OtherText)>>}

Batches == SeqsUpTo(GoodDocs, MaxBatchLen) \cup PairBatches \cup MalformedBatches
              \cup {BigBatch}

----------------------------------------------------------------------------
(* The collection (ChromaDB), as the handler uses it. *)

\* collection.delete(where=filter): drops every entry whose metadata has each
\* key of the filter with the filter's value (exact match), and no other.
Matches(meta, where) ==
    \A key \in DOMAIN where : key \in DOMAIN meta /\ meta[key] = where[key]

CollectionDelete(idx, where) == {e \in idx : ~Matches(e.metadata, where)}

\* collection.add(ids, documents, metadatas): one entry per position.
CollectionAdd(idx, idSeq, docSeq, metaSeq) ==
    idx \cup {[id |-> idSeq[k], document |-> docSeq[k], metadata |-> metaSeq[k]] :
                 k \in 1..Len(idSeq)}

\* What a client can observe of an entry: its text and metadata, not its id.
Obs(e) == [document |-> e.document, metadata |-> e.metadata]

\* The observable content of an index: the multiset of Obs over its entries.
Content(idx) ==
    [o \in {Obs(e) : e \in idx} |-> Cardinality({e \in idx : Obs(e) = o})]

----------------------------------------------------------------------------
(* update_file_embeddings, lines 68-105. *)

\* lines 72-75: doc["metadata"]["filePath"] raises KeyError on a missing key.
FiltersRaise(docs) ==
    \E k \in 1..Len(docs) :
        \/ "metadata" \notin DOMAIN docs[k]
        \/ "filePath" \notin DOMAIN docs[k].metadata

\* A slip: every filter takes the first document's path.
MetadataFilters_FirstOnly(docs) ==
    [k \in 1..Len(docs) |-> [filePath |-> docs[1].metadata.filePath]]

\* A slip: the filter is keyed by start_line, not filePath.
MetadataFilters_ByLine(docs) ==
    [k \in 1..Len(docs) |-> [start_line |-> docs[k].metadata.start_line]]

\* lines 72-75: one filter per document, in order (duplicates kept).
MetadataFilters(docs) ==
    [k \in 1..Len(docs) |-> [filePath |-> docs[k].metadata.filePath]]

\* A slip: the delete loop stops one filter early.
DeletePending_OffByOne(filters, d) == d < Len(filters)

\* line 78: the delete loop has a filter left.
DeletePending(filters, d) == d <= Len(filters)

\* line 82: uuid4 per document; fresh ids are the pair (call, position).
FreshIds(call, docs) == [k \in 1..Len(docs) |-> <<call, k>>]

\* line 84: doc["document"] raises KeyError on a missing key.
DocumentsRaise(docs) == \E k \in 1..Len(docs) : "document" \notin DOMAIN docs[k]

\* line 84: text[:1000]
Truncate(t) == [t EXCEPT !.len = Min(t.len, MAX_DOC_CHARS)]

PreparedDocuments(docs) == [k \in 1..Len(docs) |-> Truncate(docs[k].document)]

\* line 85
PreparedMetadatas(docs) == [k \in 1..Len(docs) |-> docs[k].metadata]

\* A slip: floor instead of ceil, so the last partial chunk is never added.
TotalBatches_Floor(total_docs, bs) == total_docs \div bs

\* line 89: math.ceil(total_docs / BATCH_SIZE)
TotalBatches(total_docs, bs) == (total_docs + bs - 1) \div bs

\* lines 92-93, as 0-based half-open slice bounds
StartIdx(i, bs) == i * bs
EndIdx(i, bs, total_docs) == Min((i + 1) * bs, total_docs)

\* s[start:end] of a Python list, on a 1-based sequence
Slice(s, start, end) == SubSeq(s, start + 1, end)

StoreCall(op, arg, ok) == [op |-> op, arg |-> arg, ok |-> ok]

NoCall == [batch |-> <<>>, before |-> Content({}), outcome |-> "none"]

OkResponse(n) == [kind |-> "update", status |-> "success", n |-> n]
ErrResponse(kind) == [kind |-> kind, status |-> "error"]
Pending(kind) == [kind |-> kind, status |-> "pending"]
NoResponse == [kind |-> "none", status |-> "none"]
NoSearch == [request |-> <<>>, candidates |-> <<>>, evaluated |-> 0, queries |-> 0]

\* The handler's locals are gone once it has returned or raised.
DropLocals ==
    /\ input' = <<>>
    /\ metadata_filters' = <<>>
    /\ di' = 1
    /\ ids' = <<>>
    /\ documents' = <<>>
    /\ metadatas' = <<>>
    /\ ci' = 0

\* lines 103-105: any exception ends the call with HTTP 500.
Abort ==
    /\ pc' = "idle"
    /\ response' = ErrResponse("update")
    /\ DropLocals

\* A slip: a handler is started while another has not returned.
HandlerMayStart_Anytime == TRUE

\* lines 69, 108: the handlers are `async def` and await nothing, and the store
\* calls are synchronous, so the event loop starts a handler only when none is
\* between its first statement and its response.
HandlerMayStart == pc = "idle" /\ response = NoResponse

\* lines 69-75: the request is served and the filters are built.
UpdateBegin(B, limit) ==
    /\ HandlerMayStart
    /\ callNo < limit
    /\ callNo' = callNo + 1
    /\ prev' = cur
    /\ ops' = <<>>
    /\ search' = NoSearch
    /\ IF FiltersRaise(B)
       THEN /\ Abort
            /\ cur' = [batch |-> B, before |-> Content(index), outcome |-> "error"]
       ELSE /\ pc' = "delete"
            /\ input' = B
            /\ metadata_filters' = MetadataFilters(B)
            /\ di' = 1
            /\ cur' = [batch |-> B, before |-> Content(index), outcome |-> "running"]
            /\ response' = Pending("update")
            /\ UNCHANGED <<ids, documents, metadatas, ci>>
    /\ UNCHANGED <<index, batchSize, pathFilter>>

\* lines 78-79: one collection.delete, which returns or raises.
UpdateDelete ==
    /\ pc = "delete"
    /\ DeletePending(metadata_filters, di)
    /\ \/ /\ index' = CollectionDelete(index, metadata_filters[di])
          /\ di' = di + 1
          /\ ops' = Append(ops, StoreCall("delete", metadata_filters[di], TRUE))
          /\ UNCHANGED <<pc, response, cur, input, metadata_filters, ids, documents,
                         metadatas, ci>>
       \/ /\ Abort
          /\ ops' = Append(ops, StoreCall("delete", metadata_filters[di], FALSE))
          /\ cur' = [cur EXCEPT !.outcome = "error"]
          /\ UNCHANGED index
    /\ UNCHANGED <<batchSize, callNo, search, prev, requests, pathFilter>>

\* lines 81-89: ids, truncated texts, metadatas.
UpdatePrepare ==
    /\ pc = "delete"
    /\ ~DeletePending(metadata_filters, di)
    /\ IF DocumentsRaise(input)
       THEN /\ Abort
            /\ cur' = [cur EXCEPT !.outcome = "error"]
       ELSE /\ pc' = "add"
            /\ ids' = FreshIds(callNo, input)
            /\ documents' = PreparedDocuments(input)
            /\ metadatas' = PreparedMetadatas(input)
            /\ ci' = 0
            /\ UNCHANGED <<response, cur, input, metadata_filters, di>>
    /\ UNCHANGED <<index, batchSize, callNo, search, ops, prev, requests, pathFilter>>

\* lines 91-100: one collection.add of a chunk, which returns or raises.
UpdateAdd ==
    /\ pc = "add"
    /\ ci < TotalBatches(Len(input), batchSize)
    /\ LET s == StartIdx(ci, batchSize)
           e == EndIdx(ci, batchSize, Len(input))
       IN  \/ /\ index' = CollectionAdd(index, Slice(ids, s, e), Slice(documents, s, e),
                                        Slice(metadatas, s, e))
              /\ ci' = ci + 1
              /\ ops' = Append(ops, StoreCall("add", <<s, e>>, TRUE))
              /\ UNCHANGED <<pc, response, cur, input, metadata_filters, di, ids,
                             documents, metadatas>>
           \/ /\ Abort
              /\ ops' = Append(ops, StoreCall("add", <<s, e>>, FALSE))
              /\ cur' = [cur EXCEPT !.outcome = "error"]
              /\ UNCHANGED index
    /\ UNCHANGED <<batchSize, callNo, search, prev, requests, pathFilter>>

\* line 102: every chunk is in; status success.
UpdateReturn ==
    /\ pc = "add"
    /\ ci >= TotalBatches(Len(input), batchSize)
    /\ pc' = "idle"
    /\ response' = OkResponse(Len(input))
    /\ DropLocals
    /\ cur' = [cur EXCEPT !.outcome = "success"]
    /\ UNCHANGED <<index, batchSize, callNo, search, ops, prev, requests, pathFilter>>

----------------------------------------------------------------------------
(* The path filters, lines 159-199. *)

\* str.replace(old, new), old one character, new a string.
RECURSIVE Replace(_, _, _)
Replace(str, old, new) ==
    IF str = <<>> THEN <<>>
    ELSE (IF Head(str) = old THEN new ELSE <<Head(str)>>) \o Replace(Tail(str), old, new)

\* str.split(','): the pieces between the commas, empty pieces kept.
RECURSIVE SplitFrom(_, _, _)
SplitFrom(str, i, piece) ==
    IF i > Len(str) THEN <<piece>>
    ELSE IF str[i] = "," THEN <<piece>> \o SplitFrom(str, i + 1, <<>>)
    ELSE SplitFrom(str, i + 1, Append(piece, str[i]))

Split(str) == SplitFrom(str, 1, <<>>)

\* str.strip(): leading and trailing whitespace dropped.
RECURSIVE LStrip(_)
LStrip(str) == IF str # <<>> /\ Head(str) = " " THEN LStrip(Tail(str)) ELSE str

RECURSIVE RStrip(_)
RStrip(str) ==
    IF str # <<>> /\ str[Len(str)] = " " THEN RStrip(SubSeq(str, 1, Len(str) - 1)) ELSE str

Strip(str) == RStrip(LStrip(str))

NonEmpty(str) == str # <<>>

StripOf(pieces) == [k \in 1..Len(pieces) |-> Strip(pieces[k])]

\* lines 162, 182: [pattern.strip() for pattern in s.split(',') if pattern.strip()]
PatternsOf(str) == SelectSeq(StripOf(Split(str)), NonEmpty)

\* lines 166, 190: the chain of replacements, in the code's order.
GlobToRegex(pattern) ==
    Replace(Replace(Replace(Replace(Replace(pattern,
        ".", <<"\\", ".">>), "*", <<".", "*">>), "{", <<"(">>), "}", <<")">>), ",", <<"|">>)

\* re.compile: the regex text read into tokens. An escaped character is a
\* literal, "." is any character, and a "*" after either repeats it. (A "*"
\* elsewhere is left a token of its own: GlobToRegex writes every "*" after a ".".)
Atom(t, c, rx, i) == [t |-> t, c |-> c, rep |-> (i <= Len(rx) /\ rx[i] = "*")]

RECURSIVE Tokens(_, _)
Tokens(rx, i) ==
    IF i > Len(rx) THEN <<>>
    ELSE IF rx[i] = "\\" /\ i < Len(rx)
         THEN LET a == Atom("lit", rx[i + 1], rx, i + 2)
              IN  <<a>> \o Tokens(rx, IF a.rep THEN i + 3 ELSE i + 2)
    ELSE IF rx[i] = "\\" THEN <<[t |-> "badescape", c |-> "", rep |-> FALSE]>>
    ELSE IF rx[i] = "(" THEN <<[t |-> "open", c |-> "", rep |-> FALSE]>> \o Tokens(rx, i + 1)
    ELSE IF rx[i] = ")" THEN <<[t |-> "close", c |-> "", rep |-> FALSE]>> \o Tokens(rx, i + 1)
    ELSE IF rx[i] = "|" THEN <<[t |-> "bar", c |-> "", rep |-> FALSE]>> \o Tokens(rx, i + 1)
    ELSE IF rx[i] = "*" THEN <<[t |-> "star", c |-> "", rep |-> FALSE]>> \o Tokens(rx, i + 1)
    ELSE LET a == Atom(IF rx[i] = "." THEN "any" ELSE "lit", rx[i], rx, i + 1)
         IN  <<a>> \o Tokens(rx, IF a.rep THEN i + 2 ELSE i + 1)

\* The nesting depth after token i.
RECURSIVE Depth(_, _)
Depth(tk, i) ==
    IF i = 0 THEN 0
    ELSE Depth(tk, i - 1) + (IF tk[i].t = "open" THEN 1 ELSE IF tk[i].t = "close" THEN -1 ELSE 0)

\* re.compile raises re.error on a parenthesis without its partner, on a
\* backslash that ends the pattern, and on a "*" with nothing to repeat.
Compiles(rx) ==
    LET tk == Tokens(rx, 1)
    IN  /\ \A i \in 1..Len(tk) : Depth(tk, i) >= 0
        /\ Depth(tk, Len(tk)) = 0
        /\ \A i \in 1..Len(tk) : tk[i].t \notin {"star", "badescape"}

\* re.IGNORECASE on the letters of the model's alphabet.
Lower(c) ==
    CASE c = "P" -> "p"
      [] c = "Y" -> "y"
      [] c = "M" -> "m"
      [] c = "D" -> "d"
      [] OTHER -> c

\* The positions in str a match of tokens lo..hi can end at, begun at a position
\* of from (a position is the number of characters consumed, plus one).
RECURSIVE EndsAlt(_, _, _, _, _), EndsSeq(_, _, _, _, _)
EndsAlt(tk, lo, hi, str, from) ==
    LET base == Depth(tk, lo - 1)
        bars == {i \in lo..hi : tk[i].t = "bar" /\ Depth(tk, i) = base}
    IN  IF bars = {} THEN EndsSeq(tk, lo, hi, str, from)
        ELSE LET b == CHOOSE i \in bars : \A j \in bars : i <= j
             IN  EndsSeq(tk, lo, b - 1, str, from) \cup EndsAlt(tk, b + 1, hi, str, from)

\* One character of str at position r, as token a takes it.
Takes(a, str, r) ==
    r <= Len(str) /\ (a.t = "any" \/ Lower(str[r]) = Lower(a.c))

\* The positions reached from r by taking characters for atom a, zero or more times.
RECURSIVE Run(_, _, _)
Run(a, str, r) == {r} \cup (IF Takes(a, str, r) THEN Run(a, str, r + 1) ELSE {})

EndsSeq(tk, lo, hi, str, from) ==
    IF lo > hi \/ from = {} THEN from
    ELSE CASE tk[lo].t \in {"lit", "any"} ->
                EndsSeq(tk, lo + 1, hi, str,
                        IF tk[lo].rep
                        THEN UNION {Run(tk[lo], str, r) : r \in from}
                        ELSE {r + 1 : r \in {q \in from : Takes(tk[lo], str, q)}})
           [] tk[lo].t = "open" ->
                LET base == Depth(tk, lo - 1)
                    close == CHOOSE i \in (lo + 1)..hi :
                                /\ tk[i].t = "close"
                                /\ Depth(tk, i) = base
                                /\ \A j \in (lo + 1)..(i - 1) : Depth(tk, j) > base
                IN  EndsSeq(tk, close + 1, hi, str, EndsAlt(tk, lo + 1, close - 1, str, from))
           [] OTHER -> {}

\* regex.search(file_path) of a compiled pattern: a match anywhere.
RegexSearch(rx, str) ==
    LET tk == Tokens(rx, 1)
    IN  EndsAlt(tk, 1, Len(tk), str, 1..(Len(str) + 1)) # {}

\* lines 164-174: the first pattern that matches excludes; a pattern that does
\* not compile raises, and the except clause returns False.
RECURSIVE ExcludeFrom(_, _, _)
ExcludeFrom(patterns, k, file_path) ==
    IF k > Len(patterns) THEN FALSE
    ELSE LET rx == GlobToRegex(patterns[k])
         IN  IF ~Compiles(rx) THEN FALSE
             ELSE IF RegexSearch(rx, file_path) THEN TRUE
             ELSE ExcludeFrom(patterns, k + 1, file_path)

should_exclude_file(file_path, exclusion_pattern) ==
    ExcludeFrom(PatternsOf(exclusion_pattern), 1, file_path)

\* lines 188-199: the first pattern that matches includes; a pattern that does
\* not compile raises, and the except clause returns True.
RECURSIVE IncludeFrom(_, _, _)
IncludeFrom(patterns, k, file_path) ==
    IF k > Len(patterns) THEN FALSE
    ELSE LET rx == GlobToRegex(patterns[k])
         IN  IF ~Compiles(rx) THEN TRUE
             ELSE IF RegexSearch(rx, file_path) THEN TRUE
             ELSE IncludeFrom(patterns, k + 1, file_path)

\* A slip: the check of lines 185-186 is left out.
should_include_file_NoEmptyCheck(file_path, inclusion_pattern) ==
    IF inclusion_pattern = <<>> THEN TRUE
    ELSE IncludeFrom(PatternsOf(inclusion_pattern), 1, file_path)

should_include_file(file_path, inclusion_pattern) ==
    IF inclusion_pattern = <<>> THEN TRUE
    ELSE IF PatternsOf(inclusion_pattern) = <<>> THEN TRUE
    ELSE IncludeFrom(PatternsOf(inclusion_pattern), 1, file_path)

----------------------------------------------------------------------------
(* search_embeddings, lines 107-157. *)

\* Scores, thresholds and distances are counted in hundredths: One is 1.0.
One == 100

\* line 112
EXTRA_RESULTS_FACTOR == 2

\* A slip: the distance is not turned into a similarity.
Similarity_Raw(distance) == distance \div 2

\* line 123: 1 - (distance / 2); the model's distances are even.
Similarity(distance) == One - distance \div 2

\* A slip: the comparison is turned round.
PassesThreshold_Flipped(similarity, threshold) == similarity <= threshold

\* line 124
PassesThreshold(similarity, threshold) == similarity >= threshold

\* A slip: the loop stops one result late.
EnoughResults_Late(n, max_results) == n > max_results

\* line 151
EnoughResults(n, max_results) == n >= max_results

\* s[:k] of a Python list.
SliceTo(s, k) ==
    IF k >= 0 THEN SubSeq(s, 1, Min(k, Len(s)))
    ELSE SubSeq(s, 1, IF Len(s) + k > 0 THEN Len(s) + k ELSE 0)

\* lines 142-144: metadata["filePath"], ["start_line"], ["end_line"] raise
\* KeyError on a missing key (the model's start_line stands for both lines).
ResultRaises(metadata) ==
    "filePath" \notin DOMAIN metadata \/ "start_line" \notin DOMAIN metadata

\* lines 139-148
Result(c, similarity) ==
    [code |-> c.document, filePath |-> c.metadata.filePath,
     lineStart |-> c.metadata.start_line, score |-> similarity]

\* metadata.get("filePath", "")
FilePathOr(metadata) ==
    IF "filePath" \in DOMAIN metadata THEN metadata.filePath ELSE <<>>

\* lines 126-137: the candidate passes the path filters.
PassesFilters(metadata, req) ==
    /\ ~(req.exclusion_pattern # <<>>
           /\ should_exclude_file(FilePathOr(metadata), req.exclusion_pattern))
    /\ ~(req.inclusion_pattern # <<>>
           /\ ~should_include_file(FilePathOr(metadata), req.inclusion_pattern))

\* lines 120-152: the loop over the candidates from candidate i on, acc the
\* results so far. A filtered candidate takes `continue`, past the check of
\* line 151. Gives the results, the number of candidates evaluated, and
\* whether building a result raised.
RECURSIVE SearchLoop(_, _, _, _)
SearchLoop(cands, i, acc, req) ==
    IF i > Len(cands) THEN [results |-> acc, evaluated |-> Len(cands), raised |-> FALSE]
    ELSE LET c == cands[i]
             similarity == Similarity(c.distance)
         IN  IF PassesThreshold(similarity, req.similarity_threshold)
             THEN IF ~PassesFilters(c.metadata, req)
                  THEN SearchLoop(cands, i + 1, acc, req)
                  ELSE IF ResultRaises(c.metadata)
                  THEN [results |-> acc, evaluated |-> i, raised |-> TRUE]
                  ELSE IF EnoughResults(Len(acc) + 1, req.max_results)
                  THEN [results |-> Append(acc, Result(c, similarity)), evaluated |-> i,
                        raised |-> FALSE]
                  ELSE SearchLoop(cands, i + 1, Append(acc, Result(c, similarity)), req)
             ELSE IF EnoughResults(Len(acc), req.max_results)
                  THEN [results |-> acc, evaluated |-> i, raised |-> FALSE]
                  ELSE SearchLoop(cands, i + 1, acc, req)

\* collection.query validates n_results and raises ValueError unless it is positive.
QueryRejects(n_results) == n_results <= 0

\* collection.query(query_texts=[q], n_results=n): up to n entries, no entry
\* twice, in non-decreasing distance from the query. dist gives the distance of
\* the query's embedding from a text's (the embedder is a function of the text).
QueryResults(idx, dist, n_results) ==
    LET m == Min(n_results, Cardinality(idx))
        picks == {f \in [1..m -> idx] :
                     /\ \A i, j \in 1..m : i < j => f[i] # f[j]
                     /\ \A i, j \in 1..m : i < j => dist[f[i].document] <= dist[f[j].document]}
    IN  {[k \in 1..m |-> [document |-> f[k].document, metadata |-> f[k].metadata,
                          distance |-> dist[f[k].document]]] : f \in picks}

SearchResponse(results) == [kind |-> "search", status |-> "success", results |-> results]

\* lines 108-157: the whole handler; it awaits nothing.
Search(Requests, DistanceValues) ==
    /\ HandlerMayStart
    /\ \E max_results \in {r.max_results : r \in Requests} :
         LET n_results_to_fetch == max_results * EXTRA_RESULTS_FACTOR
         IN  \/ \E req \in {r \in Requests : r.max_results = max_results} :
                  /\ response' = ErrResponse("search")
                  /\ search' = [request |-> req, candidates |-> <<>>, evaluated |-> 0,
                                queries |-> 1]
             \/ /\ ~QueryRejects(n_results_to_fetch)
                /\ \E dist \in [{e.document : e \in index} -> DistanceValues] :
                     \E cands \in QueryResults(index, dist, n_results_to_fetch) :
                       \E req \in {r \in Requests : r.max_results = max_results} :
                          LET out == SearchLoop(cands, 1, <<>>, req)
                          IN  /\ response' =
                                    IF out.raised THEN ErrResponse("search")
                                    ELSE SearchResponse(SliceTo(out.results, req.max_results))
                              /\ search' = [request |-> req, candidates |-> cands,
                                            evaluated |-> out.evaluated, queries |-> 1]
    /\ UNCHANGED <<index, batchSize, pc, input, metadata_filters, di, ids, documents,
                   metadatas, ci, callNo, ops, cur, prev, pathFilter>>

\* A request in flight: what was sent (an update's batch or a search's query),
\* whether its handler has started, the update call it became, and the requests
\* that were in flight when it was sent.
Request(kind, arg, with) ==
    [kind |-> kind, arg |-> arg, stage |-> "waiting", call |-> 0, with |-> with]

InFlight(reqs) == {i \in 1..Len(reqs) : reqs[i].stage # "answered"}

\* The request whose handler ran has its response.
Answered(reqs) ==
    [i \in 1..Len(reqs) |->
        IF reqs[i].stage = "running" THEN [reqs[i] EXCEPT !.stage = "answered"] ELSE reqs[i]]

\* The response goes out to the client (lines 102, 105, 154, 157).
Deliver ==
    /\ pc = "idle"
    /\ response # NoResponse
    /\ response' = NoResponse
    /\ search' = NoSearch
    /\ requests' = Answered(requests)
    /\ UNCHANGED <<index, batchSize, pc, input, metadata_filters, di, ids, documents,
                   metadatas, ci, callNo, ops, cur, prev, pathFilter>>

----------------------------------------------------------------------------
(* The system. *)

\* The state after the module is loaded: EphemeralClient holds an empty
\* collection and no request has been served.
Loaded(bs) ==
    /\ index = {}
    /\ batchSize = bs
    /\ pc = "idle"
    /\ input = <<>>
    /\ metadata_filters = <<>>
    /\ di = 1
    /\ ids = <<>>
    /\ documents = <<>>
    /\ metadatas = <<>>
    /\ ci = 0
    /\ callNo = 0
    /\ response = NoResponse
    /\ search = NoSearch
    /\ ops = <<>>
    /\ cur = NoCall
    /\ prev = NoCall
    /\ requests = <<>>

\* No path filter is called but from the search handler.
NoFilter == [file_path |-> <<>>, pattern |-> <<>>, call |-> "none", result |-> FALSE]

InitWith(bs) == Loaded(bs) /\ pathFilter = NoFilter

Init == InitWith(BATCH_SIZE)

\* The update handler's steps and the delivery of its response, the batch of a
\* new call drawn from BatchSet, for at most limit calls.
UpdateStep(BatchSet, limit) ==
    \/ \E B \in BatchSet : UpdateBegin(B, limit) /\ UNCHANGED requests
    \/ UpdateDelete
    \/ UpdatePrepare
    \/ UpdateAdd
    \/ UpdateReturn
    \/ Deliver

Next == UpdateStep(Batches, MaxCalls)

\* The update handler on every batch of the model.
Spec == Init /\ [][Next]_vars

(* Both handlers, on an index of a few entries. *)

\* A document whose metadata has no start_line.
DocNoLine == [document |-> ShortText, metadata |-> [filePath |-> PathB]]

SearchBatches == {<<Doc(PathA, 1, ShortText), Doc(PathB, 1, OtherText),
                    Doc(PathC, 1, LongText), Doc(PathC, 2, OtherText)>>,
                  <<Doc(PathA, 1, ShortText), DocNoLine>>,
                  <<Doc(PathB, 1, OtherText)>>}

\* squared-L2 distances of unit vectors lie in [0, 4]: 0.0, 1.2, 2.4
Distances == {0, 120, 240}

MaxResultsValues == {0, 1, 2}

\* -1.0, the default 0.2, 0.6
Thresholds == {-100, 20, 60}

\* "", "*.md", "*.{py,md}"
ExclusionPatterns == {<<>>, <<"*", ".", "m", "d">>,
                      <<"*", ".", "{", "p", "y", ",", "m", "d", "}">>}

\* "", "*.py", " , "
InclusionPatterns == {<<>>, <<"*", ".", "p", "y">>, <<" ", ",", " ">>}

SearchRequests ==
    [query : {"q"}, max_results : MaxResultsValues, similarity_threshold : Thresholds,
     exclusion_pattern : ExclusionPatterns, inclusion_pattern : InclusionPatterns]

\* update calls in one behaviour with searches
MaxSearchCalls == 1

NextSearch ==
    \/ UpdateStep(SearchBatches, MaxSearchCalls)
    \/ Search(SearchRequests, Distances) /\ UNCHANGED requests

SpecSearch == Init /\ [][NextSearch]_vars

(* The update handler at other chunk sizes. *)

\* the largest chunk size beside BATCH_SIZE
MaxChunkSize == 3
\* the longest run of documents
MaxRun == 5

\* n documents, each with its own line, over two paths and two texts.
RunBatch(n) ==
    [i \in 1..n |-> Doc(IF i % 2 = 1 THEN PathA ELSE PathB, i,
                        IF i % 3 = 0 THEN LongText ELSE ShortText)]

ChunkBatches == {RunBatch(n) : n \in 0..MaxRun}

\* update calls in one behaviour of the chunk sizes
MaxChunkCalls == 2

InitChunk == \E bs \in 1..MaxChunkSize : InitWith(bs)

NextChunk == UpdateStep(ChunkBatches, MaxChunkCalls)

SpecChunk == InitChunk /\ [][NextChunk]_vars

(* The path filters on their own, on a few paths and pattern lists. *)

\* "src/app.py", "src/app.scss", "a.txt"
PathSrcPy   == <<"s", "r", "c", "/", "a", "p", "p", ".", "p", "y">>
PathSrcScss == <<"s", "r", "c", "/", "a", "p", "p", ".", "s", "c", "s", "s">>
PathTxt     == <<"a", ".", "t", "x", "t">>

FilterPaths == {PathA, PathB, PathC, PathSrcPy, PathSrcScss, PathTxt}

\* "*.py", "*.{py,md}"
StarPy    == <<"*", ".", "p", "y">>
BracePyMd == <<"*", ".", "{", "p", "y", ",", "m", "d", "}">>

\* "", " , ", "*.MD", "scss, py", "{, *.py", "*.py, {": the last two hold a
\* pattern, "{", that re.compile rejects.
FilterPatterns ==
    {<<>>, <<" ", ",", " ">>, StarPy, BracePyMd,
     <<"*", ".", "M", "D">>,
     <<"s", "c", "s", "s", ",", " ", "p", "y">>,
     <<"{", ",", " ", "*", ".", "p", "y">>,
     <<"*", ".", "p", "y", ",", " ", "{">>}

handlerVars == <<index, batchSize, pc, input, metadata_filters, di, ids, documents,
                 metadatas, ci, callNo, response, search, ops, cur, prev>>

serverVars == <<handlerVars, requests>>

InitFilter ==
    /\ Loaded(BATCH_SIZE)
    /\ \E path \in FilterPaths, pattern \in FilterPatterns :
          pathFilter = [file_path |-> path, pattern |-> pattern, call |-> "none",
                        result |-> FALSE]

\* lines 159-174, called on the arguments at hand.
ExcludeCall ==
    /\ pathFilter.call = "none"
    /\ pathFilter' = [pathFilter EXCEPT
                         !.call = "exclude",
                         !.result = should_exclude_file(pathFilter.file_path,
                                                        pathFilter.pattern)]
    /\ UNCHANGED serverVars

\* lines 176-199, called on the arguments at hand.
IncludeCall ==
    /\ pathFilter.call = "none"
    /\ pathFilter' = [pathFilter EXCEPT
                         !.call = "include",
                         !.result = should_include_file(pathFilter.file_path,
                                                        pathFilter.pattern)]
    /\ UNCHANGED serverVars

NextFilter == ExcludeCall \/ IncludeCall

SpecFilter == InitFilter /\ [][NextFilter]_vars

(* The server with its clients: requests are sent at any time, also while a
   handler runs, and the event loop serves them one at a time, in any order. *)

\* requests sent in one behaviour
MaxRequests == 3

RequestBatches == {<<Doc(PathA, 1, ShortText)>>,
                   <<Doc(PathB, 1, ShortText)>>,
                   <<Doc(PathA, 1, OtherText), Doc(PathB, 1, OtherText)>>}

RequestSearches ==
    {[query |-> "q", max_results |-> 2, similarity_threshold |-> 20,
      exclusion_pattern |-> <<>>, inclusion_pattern |-> <<>>]}

RequestDistances == {0, 120}

\* A client sends a request; it is in flight with those not yet answered.
Arrive(kind, arg) ==
    /\ Len(requests) < MaxRequests
    /\ requests' = Append(requests, Request(kind, arg, InFlight(requests)))
    /\ UNCHANGED <<handlerVars, pathFilter>>

\* The event loop starts the update handler on a waiting request.
ServeUpdate(i) ==
    /\ requests[i].stage = "waiting"
    /\ requests[i].kind = "update"
    /\ UpdateBegin(requests[i].arg, MaxRequests)
    /\ requests' = [requests EXCEPT ![i].stage = "running", ![i].call = callNo + 1]

\* The event loop runs the search handler on a waiting request.
ServeSearch(i) ==
    /\ requests[i].stage = "waiting"
    /\ requests[i].kind = "search"
    /\ Search({requests[i].arg}, RequestDistances)
    /\ requests' = [requests EXCEPT ![i].stage = "running"]

NextRequests ==
    \/ \E B \in RequestBatches : Arrive("update", B)
    \/ \E q \in RequestSearches : Arrive("search", q)
    \/ \E i \in 1..Len(requests) : ServeUpdate(i)
    \/ \E i \in 1..Len(requests) : ServeSearch(i)
    \/ UpdateDelete
    \/ UpdatePrepare
    \/ UpdateAdd
    \/ UpdateReturn
    \/ Deliver

SpecRequests == Init /\ [][NextRequests]_vars

----------------------------------------------------------------------------
(* Vocabulary of the properties. *)

\* The file-path set P of a batch (of the documents that carry one).
PathsOf(B) ==
    {B[k].metadata.filePath :
        k \in {j \in 1..Len(B) : "metadata" \in DOMAIN B[j]
                                    /\ "filePath" \in DOMAIN B[j].metadata}}

PathOf(e) == e.metadata.filePath

\* The call that inserted an entry.
Generation(e) == e.id[1]

\* The first n characters of a text.
FirstChars(t, n) == IF t.len > n THEN Text(t.stem, n) ELSE t

\* What the index is to show for document k of a batch.
Stored(B, k) == [document |-> FirstChars(B[k].document, 1000), metadata |-> B[k].metadata]

\* The multiset of Stored over the positions K of a batch.
StoredBag(B, K) ==
    [o \in {Stored(B, k) : k \in K} |-> Cardinality({k \in K : Stored(B, k) = o})]

PositionsOf(B, p) == {k \in 1..Len(B) : B[k].metadata.filePath = p}

ContentFor(idx, p) == Content({e \in idx : PathOf(e) = p})

\* How often a content holds an observation.
Count(c, o) == IF o \in DOMAIN c THEN c[o] ELSE 0

\* The content one successful update with batch B makes of content c: what c
\* holds for the other paths, and the batch.
Replaced(c, B) ==
    LET kept == {o \in DOMAIN c : o.metadata.filePath \notin PathsOf(B)}
        new  == StoredBag(B, 1..Len(B))
    IN  [o \in kept \cup DOMAIN new |->
            IF o \in kept THEN c[o] ELSE new[o]]

Succeeded == pc = "idle" /\ cur.outcome = "success"

Issued(op) == {i \in 1..Len(ops) : ops[i].op = op}

----------------------------------------------------------------------------
(* The replace contract of update_file_embeddings. *)

\* C1: after a successful update with batch B, for each path p of B the index
\* holds for p exactly the documents of B with path p, each cut to its first
\* 1000 characters, and no entry an earlier call inserted for p.
C1_ReplaceInvariant ==
    Succeeded =>
        \A p \in PathsOf(cur.batch) :
            /\ ContentFor(index, p) = StoredBag(cur.batch, PositionsOf(cur.batch, p))
            /\ \A e \in index : PathOf(e) = p => Generation(e) = callNo

\* C1's case: a successful update replaced entries of one of its paths, and cut a text.
C1_Witness ==
    /\ Succeeded
    /\ \E o \in DOMAIN cur.before : o.metadata.filePath \in PathsOf(cur.batch)
    /\ \E k \in 1..Len(cur.batch) : cur.batch[k].document.len > 1000

\* C2: every step of an update with batch B, returning or raising, leaves the
\* entries whose path is not a path of B as they are, and a delete removes only
\* entries of the path it was issued for.
C2_ScopedDelete ==
    [][/\ \A e \in index \cup index' :
             PathOf(e) \notin PathsOf(cur'.batch) => (e \in index <=> e \in index')
       /\ \A e \in index \ index' :
             /\ Len(ops') = Len(ops) + 1
             /\ ops'[Len(ops')].op = "delete"
             /\ "filePath" \in DOMAIN ops'[Len(ops')].arg
             /\ PathOf(e) = ops'[Len(ops')].arg.filePath]_vars

\* C2's case: a delete has removed a path's entries while another path, not in
\* the batch, keeps its own.
C2_Witness ==
    /\ \E i \in Issued("delete") : ops[i].ok
    /\ \E o \in DOMAIN cur.before :
          /\ o.metadata.filePath \in PathsOf(cur.batch)
          /\ Count(Content(index), o) < cur.before[o]
    /\ \E e \in index : PathOf(e) \notin PathsOf(cur.batch)

\* C3: within one update call no delete follows an add, and by the first add a
\* delete has returned for every path of the batch.
C3_DeleteBeforeInsert ==
    /\ \A i \in Issued("add") : \A j \in Issued("delete") : j < i
    /\ Issued("add") # {} =>
          \A p \in PathsOf(cur.batch) :
              \E j \in Issued("delete") : ops[j].ok /\ ops[j].arg = [filePath |-> p]

\* C3's case: a call that deleted two paths and then added two chunks.
C3_Witness ==
    /\ Cardinality({i \in Issued("add") : ops[i].ok}) >= 2
    /\ Cardinality({ops[j].arg : j \in Issued("delete")}) >= 2

\* C4: in every state, the states inside a call and after a failed call
\* included, all entries of one path were inserted by one call.
C4_OneGenerationPerPath ==
    \A e1, e2 \in index : PathOf(e1) = PathOf(e2) => Generation(e1) = Generation(e2)

\* C4's case: inside a call that has inserted its first chunk only, with the
\* index holding entries of an earlier call too.
C4_Witness ==
    /\ pc = "add"
    /\ ci = 1
    /\ ci < TotalBatches(Len(input), batchSize)
    /\ Cardinality({Generation(e) : e \in index}) >= 2

\* C5: an update that succeeds right after a successful update with the same
\* batch leaves the observable content as the first left it.
C5_Idempotent ==
    (Succeeded /\ prev.outcome = "success" /\ prev.batch = cur.batch)
        => Content(index) = cur.before

\* C5's case: the same non-empty batch succeeded twice in a row, the first time
\* changing the content.
C5_Witness ==
    /\ Succeeded
    /\ prev.outcome = "success"
    /\ prev.batch = cur.batch
    /\ cur.batch # <<>>
    /\ prev.before # cur.before

\* C10: an update that succeeds right after a failed update with the same batch
\* leaves the content one successful update would have made of the content
\* before the failed one.
C10_RetryAfterFailure ==
    (Succeeded /\ prev.outcome = "error" /\ prev.batch = cur.batch)
        => Content(index) = Replaced(prev.before, cur.batch)

\* C10's case: the failed call left a partial index (changed, and not what the
\* retry makes of it) of a content that was not empty.
C10_Witness ==
    /\ Succeeded
    /\ prev.outcome = "error"
    /\ prev.batch = cur.batch
    /\ DOMAIN prev.before # {}
    /\ cur.before # prev.before
    /\ cur.before # Content(index)

----------------------------------------------------------------------------
(* The search contract (under SpecSearch). *)

SearchReturned == response.kind = "search" /\ response.status = "success"

\* The candidates that survive: score at or over the threshold, not excluded
\* (should_exclude_file) when there is an exclusion pattern, included
\* (should_include_file) when there is an inclusion pattern.
Survives(c, req) ==
    /\ 2 * One - c.distance >= 2 * req.similarity_threshold
    /\ (req.exclusion_pattern = <<>>
          \/ ~should_exclude_file(c.metadata.filePath, req.exclusion_pattern))
    /\ (req.inclusion_pattern = <<>>
          \/ should_include_file(c.metadata.filePath, req.inclusion_pattern))

SurvivorPositions(cands, req) == {i \in 1..Len(cands) : Survives(cands[i], req)}

\* The k-th position of a set of positions (k at most their number).
Nth(positions, k) ==
    CHOOSE i \in positions : Cardinality({j \in positions : j <= i}) = k

\* C6: a search that returns gives at most max_results results, each with a
\* score at or over similarity_threshold.
C6_BoundAndThreshold ==
    SearchReturned =>
        /\ Len(response.results) <= search.request.max_results
        /\ \A i \in 1..Len(response.results) :
              response.results[i].score >= search.request.similarity_threshold

\* C6's case: the cap cut the survivors short, and the threshold dropped a candidate.
C6_Witness ==
    /\ SearchReturned
    /\ Len(response.results) = search.request.max_results
    /\ Len(response.results) < Len(search.candidates)
    /\ \E i \in 1..Len(search.candidates) :
          2 * One - search.candidates[i].distance < 2 * search.request.similarity_threshold

\* C7: the scores of the results do not increase along the list.
C7_ScoresNonIncreasing ==
    SearchReturned =>
        \A i, j \in 1..Len(response.results) :
            i < j => response.results[i].score >= response.results[j].score

\* C7's case: two results with different scores.
C7_Witness ==
    /\ SearchReturned
    /\ Len(response.results) >= 2
    /\ response.results[1].score # response.results[2].score

\* C8: the results are the first min(max_results, survivors) survivors of the at
\* most 2 * max_results candidates of the one store query, in the store's
\* order; the loop evaluates no candidate after the one that fills the cap.
C8_Selection ==
    SearchReturned =>
        LET req   == search.request
            cands == search.candidates
            surv  == SurvivorPositions(cands, req)
            n     == Min(req.max_results, Cardinality(surv))
        IN  /\ search.queries = 1
            /\ Len(cands) <= 2 * req.max_results
            /\ Len(response.results) = n
            /\ \A k \in 1..n :
                  LET c == cands[Nth(surv, k)]
                  IN  response.results[k] =
                          [code |-> c.document, filePath |-> c.metadata.filePath,
                           lineStart |-> c.metadata.start_line,
                           score |-> One - c.distance \div 2]
            /\ search.evaluated =
                  IF Cardinality(surv) >= req.max_results
                  THEN Nth(surv, req.max_results)
                  ELSE Len(cands)

\* C8's case: the cap is filled with candidates left over, one of them a
\* survivor, after the exclusion list dropped a candidate.
C8_Witness ==
    /\ SearchReturned
    /\ search.evaluated < Len(search.candidates)
    /\ \E i \in SurvivorPositions(search.candidates, search.request) : i > search.evaluated
    /\ \E i \in 1..search.evaluated :
          /\ search.request.exclusion_pattern # <<>>
          /\ should_exclude_file(search.candidates[i].metadata.filePath,
                                 search.request.exclusion_pattern)

\* C8's other case: fewer survivors than max_results, the inclusion list having
\* dropped a candidate; the shorter list is returned.
C8_WitnessShort ==
    /\ SearchReturned
    /\ 0 < Len(response.results)
    /\ Len(response.results) < search.request.max_results
    /\ search.evaluated = Len(search.candidates)
    /\ \E i \in 1..Len(search.candidates) :
          /\ search.request.inclusion_pattern # <<>>
          /\ ~should_include_file(search.candidates[i].metadata.filePath,
                                  search.request.inclusion_pattern)

----------------------------------------------------------------------------
(* Chunking (under SpecChunk). *)

\* The entry the update call `call` is to make of document k of batch B.
EntryOf(call, B, k) ==
    [id |-> <<call, k>>, document |-> FirstChars(B[k].document, 1000),
     metadata |-> B[k].metadata]

Added == {i \in Issued("add") : ops[i].ok}

\* C9: at any chunk size, the chunks added are consecutive slices that cover
\* the batch once, and after the last one the index holds, besides what the
\* deletes left, one entry per document of the batch with its own id, text
\* and metadata: what one insert of the whole batch gives.
C9_ChunkingTransparent ==
    Succeeded =>
        LET B == cur.batch
        IN  /\ {e \in index : Generation(e) = callNo} = {EntryOf(callNo, B, k) : k \in 1..Len(B)}
            /\ Content(index) = Replaced(cur.before, B)
            /\ \A i \in Added :
                  /\ ops[i].arg[1] < ops[i].arg[2]
                  /\ ops[i].arg[2] - ops[i].arg[1] <= batchSize
                  /\ ops[i].arg[1] = (IF i - 1 \in Added THEN ops[i - 1].arg[2] ELSE 0)
            /\ B # <<>> => (Added # {} /\ ops[Len(ops)].arg[2] = Len(B))

\* C9's case: a batch that took three chunks or more, the last one short, of
\* a chunk size over one.
C9_Witness ==
    /\ Succeeded
    /\ batchSize > 1
    /\ Cardinality(Added) >= 3
    /\ ops[Len(ops)].arg[2] - ops[Len(ops)].arg[1] < batchSize

----------------------------------------------------------------------------
(* Failed writes. *)

\* The positions of the batch whose chunk was added.
AddedPositions == UNION {(ops[i].arg[1] + 1)..ops[i].arg[2] : i \in Added}

\* C11: a store call that raises is the call's last (the handler aborts at that
\* step) and the call ends with an error response, never with status success;
\* the index holds of the call exactly the entries of the chunks added before
\* the failing step; and a call returns success only after a chunk was added
\* for every document of its batch.
C11_FailedWrite ==
    /\ \A i \in 1..Len(ops) :
          ~ops[i].ok => (i = Len(ops) /\ pc = "idle" /\ cur.outcome = "error")
    /\ cur.outcome = "error" =>
          /\ response.status # "success"
          /\ response # NoResponse => response = ErrResponse("update")
    /\ response.status = "success" =>
          (cur.outcome = "success" /\ \A i \in 1..Len(ops) : ops[i].ok)
    /\ {e \in index : Generation(e) = callNo} =
          {EntryOf(callNo, cur.batch, k) : k \in AddedPositions}
    /\ Succeeded => AddedPositions = 1..Len(cur.batch)

\* C11's case: the second chunk's add raised after the deletes removed older
\* entries and the first chunk went in; the error response is at hand.
C11_Witness ==
    /\ cur.outcome = "error"
    /\ response = ErrResponse("update")
    /\ Added # {}
    /\ ops[Len(ops)].op = "add"
    /\ ~ops[Len(ops)].ok
    /\ DOMAIN cur.before # {}
    /\ Cardinality({e \in index : Generation(e) = callNo}) = BATCH_SIZE

----------------------------------------------------------------------------
(* The path filters (under SpecFilter). *)

\* The patterns of a list that re.compile accepts, once converted.
Compilable(list) ==
    {k \in 1..Len(PatternsOf(list)) : Compiles(GlobToRegex(PatternsOf(list)[k]))}

\* Some compilable pattern of the list is found in the path.
MatchesCompilable(path, list) ==
    \E k \in Compilable(list) : RegexSearch(GlobToRegex(PatternsOf(list)[k]), path)

\* C12: a pattern of the list that does not compile is skipped and the other
\* patterns decide: should_exclude_file returns true exactly when some
\* compilable pattern of the list matches the path, wherever the uncompilable
\* one stands in the list.
C12_UncompilableSkipped ==
    pathFilter.call = "exclude" =>
        pathFilter.result = MatchesCompilable(pathFilter.file_path, pathFilter.pattern)

\* The path holds the text, letter case apart.
ContainsFold(str, sub) ==
    \E i \in 1..(Len(str) - Len(sub) + 1) :
        \A j \in 1..Len(sub) : Lower(str[i + j - 1]) = Lower(sub[j])

\* C13: both filters, on the list "*.py", match exactly the paths that hold
\* ".py" ("src/app.py" yes, "src/app.scss" no), and on the list "*.{py,md}"
\* exactly the paths that hold ".py" or ".md", letter case apart.
C13_GlobMatching ==
    pathFilter.call \in {"exclude", "include"} =>
        /\ pathFilter.pattern = StarPy =>
              pathFilter.result = ContainsFold(pathFilter.file_path, <<".", "p", "y">>)
        /\ pathFilter.pattern = BracePyMd =>
              pathFilter.result = (\/ ContainsFold(pathFilter.file_path, <<".", "p", "y">>)
                                   \/ ContainsFold(pathFilter.file_path, <<".", "m", "d">>))

----------------------------------------------------------------------------
(* The path filters and the scores in a search (under SpecSearch). *)

\* A search is at hand whose store query returned.
QuerySucceeded ==
    /\ response.kind = "search"
    /\ (response.status = "success" \/ search.candidates # <<>>)

\* Every pattern of a list (that has some) fails to compile.
NoneCompiles(list) == PatternsOf(list) # <<>> /\ Compilable(list) = {}

NoInclusion(req) == [req EXCEPT !.inclusion_pattern = <<>>]

\* C15: when the inclusion pattern is empty or yields no pattern once split,
\* trimmed and cleared of empty entries, the results are the first max_results
\* of the candidates that pass the threshold and the exclusion list, whatever
\* their paths: what the search gives with no inclusion pattern.
C15_EmptyInclusion ==
    (SearchReturned /\ PatternsOf(search.request.inclusion_pattern) = <<>>) =>
        LET req   == search.request
            cands == search.candidates
            surv  == SurvivorPositions(cands, NoInclusion(req))
            n     == Min(req.max_results, Cardinality(surv))
        IN  /\ Len(response.results) = n
            /\ \A k \in 1..n :
                  LET c == cands[Nth(surv, k)]
                  IN  /\ response.results[k].code = c.document
                      /\ response.results[k].filePath = c.metadata.filePath
                      /\ response.results[k].score = One - c.distance \div 2

\* C15's case: the inclusion pattern " , " is not empty but yields no pattern,
\* and the results hold two paths.
C15_Witness ==
    /\ SearchReturned
    /\ search.request.inclusion_pattern # <<>>
    /\ PatternsOf(search.request.inclusion_pattern) = <<>>
    /\ Len(response.results) >= 2
    /\ response.results[1].filePath # response.results[2].filePath

\* C17: every result of a search carries a score from 0 to 1.
C17_ScoreRange ==
    SearchReturned =>
        \A i \in 1..Len(response.results) :
            /\ response.results[i].score >= 0
            /\ response.results[i].score <= One

----------------------------------------------------------------------------
(* Requests in flight together (under SpecRequests). *)

Updates == {i \in 1..Len(requests) : requests[i].kind = "update"}

\* Two requests were in flight at the same time: one was sent before the other
\* was answered.
Concurrent(i, j) == i \in requests[j].with \/ j \in requests[i].with

\* What the index held for path p when the latest update call began.
BeforeFor(p) ==
    [o \in {x \in DOMAIN cur.before : x.metadata.filePath = p} |-> cur.before[o]]

\* An update is in flight and, for a path of its batch, the index holds
\* neither what it held before the call nor the batch's documents.
Torn ==
    /\ pc # "idle"
    /\ \E p \in PathsOf(cur.batch) :
          /\ ContentFor(index, p) # BeforeFor(p)
          /\ ContentFor(index, p) # StoredBag(cur.batch, PositionsOf(cur.batch, p))

\* C16: a step that serves a search or delivers its response issues no store
\* write and leaves the index as it is, and an entry leaves the index only in
\* the delete loop of an update call whose batch holds the entry's path.
C16_ReadsDoNotWrite ==
    [][/\ (response.kind = "search" \/ response'.kind = "search") =>
              (index' = index /\ ops' = ops)
       /\ \A e \in index \ index' :
              /\ pc = "delete"
              /\ PathOf(e) \in PathsOf(cur.batch)]_vars

\* C16's case: a search has returned results from an index in which an update
\* call replaced entries of an earlier one.
C16_Witness ==
    /\ SearchReturned
    /\ Len(response.results) >= 1
    /\ callNo >= 2
    /\ \E o \in DOMAIN cur.before : Count(Content(index), o) < cur.before[o]

\* C18: of two update requests that were in flight together and whose batches
\* share a path, once the one served later has returned success the index
\* holds for that path exactly its documents, all inserted by that call; and
\* in no state does a path hold entries of two calls.
C18_LastWriterWins ==
    /\ \A e1, e2 \in index : PathOf(e1) = PathOf(e2) => Generation(e1) = Generation(e2)
    /\ Succeeded =>
          \A i, j \in Updates :
              (/\ Concurrent(i, j)
               /\ requests[j].call = callNo
               /\ requests[i].call \in 1..(callNo - 1)) =>
                  \A p \in PathsOf(requests[i].arg) \cap PathsOf(requests[j].arg) :
                      /\ \A e \in index : PathOf(e) = p => Generation(e) = callNo
                      /\ ContentFor(index, p) =
                            StoredBag(requests[j].arg, PositionsOf(requests[j].arg, p))

\* C18's case: the request sent first was served last, after the other had
\* succeeded with other documents for the shared path.
C18_Witness ==
    /\ Succeeded
    /\ prev.outcome = "success"
    /\ \E i, j \in Updates :
          /\ j < i
          /\ Concurrent(i, j)
          /\ requests[j].call = callNo
          /\ requests[i].call = callNo - 1
          /\ \E p \in PathsOf(requests[i].arg) \cap PathsOf(requests[j].arg) :
                StoredBag(requests[i].arg, PositionsOf(requests[i].arg, p)) #
                    StoredBag(requests[j].arg, PositionsOf(requests[j].arg, p))

\* C19: of two update requests that were in flight together, with no path in
\* common, served one after the other and both successful, the content after
\* the second is what the two updates make of the content before the first,
\* applied in the order served and in the other order.
C19_DisjointCommute ==
    (Succeeded /\ prev.outcome = "success") =>
        \A i, j \in Updates :
            (/\ Concurrent(i, j)
             /\ requests[i].call = callNo - 1
             /\ requests[j].call = callNo
             /\ PathsOf(requests[i].arg) \cap PathsOf(requests[j].arg) = {}) =>
                /\ Content(index) =
                      Replaced(Replaced(prev.before, requests[i].arg), requests[j].arg)
                /\ Content(index) =
                      Replaced(Replaced(prev.before, requests[j].arg), requests[i].arg)

\* C19's case: the two calls each replaced entries of an earlier call.
C19_Witness ==
    /\ Succeeded
    /\ prev.outcome = "success"
    /\ \E i, j \in Updates :
          /\ Concurrent(i, j)
          /\ requests[i].call = callNo - 1
          /\ requests[j].call = callNo
          /\ PathsOf(requests[i].arg) \cap PathsOf(requests[j].arg) = {}
          /\ \A k \in {i, j} :
                \E o \in DOMAIN prev.before : o.metadata.filePath \in PathsOf(requests[k].arg)

\* C20: a handler starts only while no update call is between its first
\* statement and its return, so at most one handler runs, and a search is
\* served from an index that is not torn: its candidates are entries of the
\* index as no update in flight has left it.
C20_UpsertAtomic ==
    [][/\ (\E i \in 1..Len(requests) :
              requests[i].stage = "waiting" /\ requests'[i].stage = "running") =>
              (pc = "idle" /\ ~Torn)
       /\ (response'.kind = "search" /\ response.kind # "search") =>
              /\ pc = "idle"
              /\ pc' = "idle"
              /\ ~Torn
              /\ \A k \in 1..Len(search'.candidates) :
                    \E e \in index :
                        /\ e.document = search'.candidates[k].document
                        /\ e.metadata = search'.candidates[k].metadata
       /\ Cardinality({i \in 1..Len(requests') : requests'[i].stage = "running"}) <= 1]_vars

\* C20's case: a search request is in flight while an update call has deleted
\* a path's entries and not yet inserted its own.
C20_Witness ==
    /\ Torn
    /\ \E i \in 1..Len(requests) :
          requests[i].kind = "search" /\ requests[i].stage = "waiting"

====
